---- MODULE Spec2Model ----
(***************************************************************************)
(* ST_API_LIB: session handling of the ServiceTrade client library for     *)
(* Google Apps Script (src/auth.js, second draft, lines 155-381) and the   *)
(* companies query (src/companies.js).                                     *)
(*                                                                         *)
(* State: the script properties (SESSION_COOKIES, SESSION_EXPIRATION), the *)
(* project triggers, the wall clock, and a record of the last public call  *)
(* (its arguments, its result, the network requests it issued).            *)
(* Every public function is one action: Apps Script runs one invocation at *)
(* a time.  Only SpecRace splits isUserLoggedIn in two steps; `running` is *)
(* the invocation of it that has read the store and not yet acted.         *)
(* `firings` is the parity of the number of firings of the trigger that    *)
(* SpecLive counts, so that a firing is a step even when it changes        *)
(* nothing else.                                                           *)
(***************************************************************************)
EXTENDS Integers, Sequences, FiniteSets, TLC

VARIABLES scriptProps, triggers, now, last, running, firings

vars == <<scriptProps, triggers, now, last, running, firings>>

(***************************************************************************)
(* Bounds of the model.                                                    *)
(***************************************************************************)
\* number of times the clock advances
MaxTicks == 3

(***************************************************************************)
(* Values.                                                                 *)
(***************************************************************************)
\* Set-Cookie header values the authentication endpoint hands out
Credentials == {"PHPSESSID=a", "PHPSESSID=b"}

\* A JavaScript number argument: whole + 1/2 when frac, else whole.
Num(whole, frac) == [whole |-> whole, frac |-> frac]

\* timeoutLength arguments tried: allowed minute intervals (1, 5, 30),
\* integers outside them (-1, 0, 2) and the non-integer 1.5
TimeoutLengths ==
    {Num(w, FALSE) : w \in {-1, 0, 1, 2, 5, 30}} \cup {Num(1, TRUE)}

Units == {"hours", "minutes", "days"}

\* amounts by which the clock advances between calls (minutes)
TickSteps == {30}

\* What UrlFetchApp.fetch does with muteHttpExceptions: it returns a response
\* (any status code) or throws (DNS failure, timeout, ...).
Response(code, cookie) == [threw |-> FALSE, code |-> code, cookie |-> cookie]
FetchThrew == [threw |-> TRUE, code |-> 0, cookie |-> ""]

LoginFetches ==
    {Response(200, c) : c \in Credentials} \cup {Response(401, ""), FetchThrew}
LogoutFetches == {Response(204, ""), Response(500, ""), FetchThrew}

\* a network request as the transport sees it
Request(method, path, cookie, query) ==
    [method |-> method, path |-> path, cookie |-> cookie, query |-> query]

(***************************************************************************)
(* Results of the public functions.                                        *)
(***************************************************************************)
ReturnObject(success, message) ==
    [kind |-> "object", success |-> success, message |-> message, value |-> FALSE,
     data |-> ""]
ReturnString(message) ==
    [kind |-> "string", success |-> FALSE, message |-> message, value |-> FALSE,
     data |-> ""]
ReturnBoolean(value) ==
    [kind |-> "boolean", success |-> FALSE, message |-> "", value |-> value,
     data |-> ""]
Throw(message) ==
    [kind |-> "throw", success |-> FALSE, message |-> message, value |-> FALSE,
     data |-> ""]
\* { success: true, ...JSON.parse(body) }
ReturnData(body) ==
    [kind |-> "object", success |-> TRUE, message |-> "", value |-> FALSE,
     data |-> body]

\* the state a handler runs on and leaves behind
Outcome(props, trigs, result, requests) ==
    [props |-> props, triggers |-> trigs, result |-> result, requests |-> requests]

(***************************************************************************)
(* PropertiesService.getScriptProperties(): a key is absent (getProperty   *)
(* returns null) or holds a string.                                        *)
(***************************************************************************)
hasProperty(props, key) == key \in DOMAIN props

setProperty(props, key, value) ==
    [k \in DOMAIN props \cup {key} |-> IF k = key THEN value ELSE props[k]]

deleteProperty(props, key) ==
    [k \in DOMAIN props \ {key} |-> props[k]]

NoProperties == [k \in {} |-> ""]

\* the stored expiration: no entry, or the one ISO string stored
expirationOf(props) ==
    IF hasProperty(props, "SESSION_EXPIRATION")
    THEN <<props["SESSION_EXPIRATION"]>>
    ELSE <<>>

\* _getSessionCookies: truthy exactly when SESSION_COOKIES is stored
_getSessionCookies(props) == hasProperty(props, "SESSION_COOKIES")

(***************************************************************************)
(* Dates: minutes since the epoch.  toISOString prints the fields, new     *)
(* Date(string) reads them back.                                           *)
(***************************************************************************)
getMinutes(date) == date % 60

\* Date.prototype.setMinutes: replaces the minutes field, carrying overflow
setMinutes(date, minutes) == (date - getMinutes(date)) + minutes

toISOString(date) == <<date \div 60, date % 60>>

parseDate(iso) == iso[1] * 60 + iso[2]

(***************************************************************************)
(* ScriptApp triggers.  A trigger is its handler function name and the     *)
(* interval calls made on its builder, in order.                           *)
(***************************************************************************)
SessionCheckHandler == "librarySessionCheckTrigger"

\* a trigger of the host project that the library did not install; the
\* project starts with it
ForeignTrigger == [handler |-> "onEdit", intervals |-> <<<<"hours", 1>>>>]

newTrigger(functionName) == [handler |-> functionName, intervals |-> <<>>]

everyMinutes(trigger, n) ==
    [trigger EXCEPT !.intervals = Append(@, <<"minutes", n>>)]

everyHours(trigger, n) ==
    [trigger EXCEPT !.intervals = Append(@, <<"hours", n>>)]

\* _deleteExistingTriggers looking for the handler name of the first draft
_deleteExistingTriggers_otherName(trigs, functionName) ==
    SelectSeq(trigs, LAMBDA t : t.handler # "checkSessionStatus")

\* _deleteExistingTriggers: every trigger of that handler is deleted
_deleteExistingTriggers(trigs, functionName) ==
    SelectSeq(trigs, LAMBDA t : t.handler # functionName)

\* the interval calls with < for <= in the upper limits of the minute ranges
_intervalCalls_strictLimits(trigger, frequency, unit) ==
    IF unit = "minutes" THEN
        LET t1 == IF frequency < 1 THEN everyMinutes(trigger, 1) ELSE trigger
            t2 == IF frequency > 1 /\ frequency < 5 THEN everyMinutes(t1, 5) ELSE t1
            t3 == IF frequency > 5 /\ frequency < 10 THEN everyMinutes(t2, 10) ELSE t2
            t4 == IF frequency > 10 /\ frequency < 15 THEN everyMinutes(t3, 15) ELSE t3
        IN  IF frequency > 15 THEN everyMinutes(t4, 30) ELSE t4
    ELSE IF unit = "hours" THEN everyHours(trigger, frequency)
    ELSE trigger

\* the interval calls _createSessionCheckTrigger makes on the builder
_intervalCalls(trigger, frequency, unit) ==
    IF unit = "minutes" THEN
        LET t1 == IF frequency <= 1 THEN everyMinutes(trigger, 1) ELSE trigger
            t2 == IF frequency > 1 /\ frequency <= 5 THEN everyMinutes(t1, 5) ELSE t1
            t3 == IF frequency > 5 /\ frequency <= 10 THEN everyMinutes(t2, 10) ELSE t2
            t4 == IF frequency > 10 /\ frequency <= 15 THEN everyMinutes(t3, 15) ELSE t3
        IN  IF frequency > 15 THEN everyMinutes(t4, 30) ELSE t4
    ELSE IF unit = "hours" THEN everyHours(trigger, frequency)
    ELSE trigger

\* _createSessionCheckTrigger without the call of _deleteExistingTriggers
_createSessionCheckTrigger_noDelete(trigs, frequency, unit) ==
    Append(trigs, _intervalCalls(newTrigger(SessionCheckHandler), frequency, unit))

_createSessionCheckTrigger(trigs, frequency, unit) ==
    Append(_deleteExistingTriggers(trigs, SessionCheckHandler),
           _intervalCalls(newTrigger(SessionCheckHandler), frequency, unit))

\* the recurring check is registered
SessionTriggers(trigs) == SelectSeq(trigs, LAMBDA t : t.handler = SessionCheckHandler)

(***************************************************************************)
(* _setSessionTimeout: SESSION_EXPIRATION = now + timeoutLength, an hour   *)
(* being 60 minutes.  Called with an integer length and a valid unit only  *)
(* (login validated both).                                                 *)
(***************************************************************************)
\* _setSessionTimeout without the conversion of hours to minutes
_setSessionTimeout_hoursAsMinutes(props, date, timeoutLength, unit) ==
    setProperty(props, "SESSION_EXPIRATION",
                toISOString(setMinutes(date, getMinutes(date) + timeoutLength)))

_setSessionTimeout(props, date, timeoutLength, unit) ==
    LET expiration ==
            IF unit = "minutes"
            THEN setMinutes(date, getMinutes(date) + timeoutLength)
            ELSE setMinutes(date, getMinutes(date) + timeoutLength * 60)
    IN  setProperty(props, "SESSION_EXPIRATION", toISOString(expiration))

(***************************************************************************)
(* login(email, password, timeoutLength, unit)                             *)
(***************************************************************************)
allowedMinuteIntervals == {1, 5, 10, 15, 30}

isInteger(n) == ~n.frac

\* n < k for an integer k
lessThan(n, k) == n.whole < k

includes(set, n) == ~n.frac /\ n.whole \in set

\* validationError without the check of the minute intervals
validationError_minutesUnchecked(timeoutLength, unit) ==
    IF unit = "hours" THEN
        IF ~isInteger(timeoutLength) \/ lessThan(timeoutLength, 1)
        THEN "Invalid timeout length for hours"
        ELSE ""
    ELSE IF unit = "minutes" THEN ""
    ELSE "Invalid unit provided"

\* validationError with timeoutLength < 0 for timeoutLength < 1
validationError_hoursFromZero(timeoutLength, unit) ==
    IF unit = "hours" THEN
        IF ~isInteger(timeoutLength) \/ lessThan(timeoutLength, 0)
        THEN "Invalid timeout length for hours"
        ELSE ""
    ELSE IF unit = "minutes" THEN
        IF ~includes(allowedMinuteIntervals, timeoutLength)
        THEN "Invalid timeout length for minutes"
        ELSE ""
    ELSE "Invalid unit provided"

\* the guard clause of login: the error it throws, or "" when it passes
validationError(timeoutLength, unit) ==
    IF unit = "hours" THEN
        IF ~isInteger(timeoutLength) \/ lessThan(timeoutLength, 1)
        THEN "Invalid timeout length for hours"
        ELSE ""
    ELSE IF unit = "minutes" THEN
        IF ~includes(allowedMinuteIntervals, timeoutLength)
        THEN "Invalid timeout length for minutes"
        ELSE ""
    ELSE "Invalid unit provided"

AuthRequest == Request("post", "/api/auth", "", <<>>)

\* login without the early return on a status other than 200
login_storesOnFailure(props, trigs, date, timeoutLength, unit, fetch) ==
    IF validationError(timeoutLength, unit) # ""
    THEN Outcome(props, trigs, Throw(validationError(timeoutLength, unit)), <<>>)
    ELSE IF fetch.threw
    THEN Outcome(props, trigs, Throw("fetch failed"), <<AuthRequest>>)
    ELSE Outcome(_setSessionTimeout(setProperty(props, "SESSION_COOKIES", fetch.cookie),
                                    date, timeoutLength.whole, unit),
                 _createSessionCheckTrigger(trigs, timeoutLength.whole, unit),
                 IF fetch.code # 200
                 THEN ReturnObject(FALSE, "Invalid login credentials")
                 ELSE ReturnObject(TRUE, ""),
                 <<AuthRequest>>)

login(props, trigs, date, timeoutLength, unit, fetch) ==
    IF validationError(timeoutLength, unit) # ""
    THEN Outcome(props, trigs, Throw(validationError(timeoutLength, unit)), <<>>)
    ELSE IF fetch.threw
    THEN Outcome(props, trigs, Throw("fetch failed"), <<AuthRequest>>)
    ELSE IF fetch.code # 200
    THEN Outcome(props, trigs, ReturnObject(FALSE, "Invalid login credentials"),
                 <<AuthRequest>>)
    ELSE Outcome(_setSessionTimeout(setProperty(props, "SESSION_COOKIES", fetch.cookie),
                                    date, timeoutLength.whole, unit),
                 _createSessionCheckTrigger(trigs, timeoutLength.whole, unit),
                 ReturnObject(TRUE, ""),
                 <<AuthRequest>>)

(***************************************************************************)
(* logout()                                                                *)
(***************************************************************************)
LogoutRequest(cookie) == Request("delete", "/api/auth", cookie, <<>>)

\* logout without the check for a stored session
logout_noSessionCheck(props, trigs, fetch) ==
    LET cookie == IF _getSessionCookies(props) THEN props["SESSION_COOKIES"] ELSE ""
    IN  IF fetch.threw
        THEN Outcome(props, trigs, Throw("fetch failed"), <<LogoutRequest(cookie)>>)
        ELSE Outcome(deleteProperty(deleteProperty(props, "SESSION_COOKIES"),
                                    "SESSION_EXPIRATION"),
                     _deleteExistingTriggers(trigs, SessionCheckHandler),
                     ReturnString(IF fetch.code = 204 THEN "Logout successful"
                                                      ELSE "Logout failed"),
                     <<LogoutRequest(cookie)>>)

\* logout that clears the store only when the remote call answered 204
logout_clearsOnlyOn204(props, trigs, fetch) ==
    IF _getSessionCookies(props) THEN
        IF fetch.threw
        THEN Outcome(props, trigs, Throw("fetch failed"),
                     <<LogoutRequest(props["SESSION_COOKIES"])>>)
        ELSE IF fetch.code = 204
        THEN Outcome(deleteProperty(deleteProperty(props, "SESSION_COOKIES"),
                                    "SESSION_EXPIRATION"),
                     _deleteExistingTriggers(trigs, SessionCheckHandler),
                     ReturnString("Logout successful"),
                     <<LogoutRequest(props["SESSION_COOKIES"])>>)
        ELSE Outcome(props, trigs, ReturnString("Logout failed"),
                     <<LogoutRequest(props["SESSION_COOKIES"])>>)
    ELSE Outcome(props, trigs, ReturnString("No active session to log out from."), <<>>)

\* logout taking 200 for the status of a successful logout
logout_successOn200(props, trigs, fetch) ==
    IF _getSessionCookies(props) THEN
        IF fetch.threw
        THEN Outcome(props, trigs, Throw("fetch failed"),
                     <<LogoutRequest(props["SESSION_COOKIES"])>>)
        ELSE Outcome(deleteProperty(deleteProperty(props, "SESSION_COOKIES"),
                                    "SESSION_EXPIRATION"),
                     _deleteExistingTriggers(trigs, SessionCheckHandler),
                     ReturnString(IF fetch.code = 200 THEN "Logout successful"
                                                      ELSE "Logout failed"),
                     <<LogoutRequest(props["SESSION_COOKIES"])>>)
    ELSE Outcome(props, trigs, ReturnString("No active session to log out from."), <<>>)

\* logout without the deletion of SESSION_EXPIRATION
logout_keepsExpiration(props, trigs, fetch) ==
    IF _getSessionCookies(props) THEN
        IF fetch.threw
        THEN Outcome(props, trigs, Throw("fetch failed"),
                     <<LogoutRequest(props["SESSION_COOKIES"])>>)
        ELSE Outcome(deleteProperty(props, "SESSION_COOKIES"),
                     _deleteExistingTriggers(trigs, SessionCheckHandler),
                     ReturnString(IF fetch.code = 204 THEN "Logout successful"
                                                      ELSE "Logout failed"),
                     <<LogoutRequest(props["SESSION_COOKIES"])>>)
    ELSE Outcome(props, trigs, ReturnString("No active session to log out from."), <<>>)

logout(props, trigs, fetch) ==
    IF _getSessionCookies(props) THEN
        IF fetch.threw
        THEN Outcome(props, trigs, Throw("fetch failed"),
                     <<LogoutRequest(props["SESSION_COOKIES"])>>)
        ELSE Outcome(deleteProperty(deleteProperty(props, "SESSION_COOKIES"),
                                    "SESSION_EXPIRATION"),
                     _deleteExistingTriggers(trigs, SessionCheckHandler),
                     ReturnString(IF fetch.code = 204 THEN "Logout successful"
                                                      ELSE "Logout failed"),
                     <<LogoutRequest(props["SESSION_COOKIES"])>>)
    ELSE Outcome(props, trigs, ReturnString("No active session to log out from."), <<>>)

(***************************************************************************)
(* isUserLoggedIn()                                                        *)
(***************************************************************************)
\* isExpired with the comparison turned round
isExpired_inverted(props, date) ==
    /\ hasProperty(props, "SESSION_EXPIRATION")
    /\ date < parseDate(props["SESSION_EXPIRATION"])

\* new Date() > new Date(expiration)
isExpired(props, date) ==
    /\ hasProperty(props, "SESSION_EXPIRATION")
    /\ date > parseDate(props["SESSION_EXPIRATION"])

\* isUserLoggedIn renewing the expiration of a live session
isUserLoggedIn_extendsSession(props, trigs, date, fetch) ==
    IF ~_getSessionCookies(props)
    THEN Outcome(props, trigs, ReturnBoolean(FALSE), <<>>)
    ELSE IF isExpired(props, date) THEN
        LET out == logout(props, trigs, fetch)
        IN  IF out.result.kind = "throw" THEN out
            ELSE [out EXCEPT !.result = ReturnBoolean(FALSE)]
    ELSE Outcome(_setSessionTimeout(props, date, 30, "minutes"), trigs,
                 ReturnBoolean(TRUE), <<>>)

isUserLoggedIn(props, trigs, date, fetch) ==
    IF ~_getSessionCookies(props)
    THEN Outcome(props, trigs, ReturnBoolean(FALSE), <<>>)
    ELSE IF isExpired(props, date) THEN
        LET out == logout(props, trigs, fetch)
        IN  IF out.result.kind = "throw" THEN out
            ELSE [out EXCEPT !.result = ReturnBoolean(FALSE)]
    ELSE Outcome(props, trigs, ReturnBoolean(TRUE), <<>>)

(***************************************************************************)
(* internalTriggerForSessionCheck(): what the installed trigger runs.      *)
(* It returns nothing; the result recorded is "undefined" or the throw.    *)
(***************************************************************************)
\* _checkSessionStatusInternal calling logout whatever isUserLoggedIn said
_checkSessionStatusInternal_alwaysLogout(props, trigs, date, fetch, fetch2) ==
    LET check == isUserLoggedIn(props, trigs, date, fetch)
    IN  IF check.result.kind = "throw" THEN check
        ELSE LET out == logout(check.props, check.triggers, fetch2)
             IN  IF out.result.kind = "throw"
                 THEN [out EXCEPT !.requests = check.requests \o @]
                 ELSE [out EXCEPT !.requests = check.requests \o @,
                                  !.result = ReturnString("undefined")]

\* _checkSessionStatusInternal whose own logout runs on the store as it was
\* before isUserLoggedIn
_checkSessionStatusInternal_staleLogout(props, trigs, date, fetch, fetch2) ==
    LET check == isUserLoggedIn(props, trigs, date, fetch)
    IN  IF check.result.kind = "throw" THEN check
        ELSE IF ~check.result.value THEN
            LET out == logout(props, trigs, fetch2)
            IN  IF out.result.kind = "throw"
                THEN [out EXCEPT !.requests = check.requests \o @]
                ELSE [out EXCEPT !.requests = check.requests \o @,
                                 !.result = ReturnString("undefined")]
        ELSE [check EXCEPT !.result = ReturnString("undefined")]

_checkSessionStatusInternal(props, trigs, date, fetch, fetch2) ==
    LET check == isUserLoggedIn(props, trigs, date, fetch)
    IN  IF check.result.kind = "throw" THEN check
        ELSE IF ~check.result.value THEN
            \* the second logout runs on what isUserLoggedIn left
            LET out == logout(check.props, check.triggers, fetch2)
            IN  IF out.result.kind = "throw"
                THEN [out EXCEPT !.requests = check.requests \o @]
                ELSE [out EXCEPT !.requests = check.requests \o @,
                                 !.result = ReturnString("undefined")]
        ELSE [check EXCEPT !.result = ReturnString("undefined")]

internalTriggerForSessionCheck(props, trigs, date, fetch, fetch2) ==
    _checkSessionStatusInternal(props, trigs, date, fetch, fetch2)

(***************************************************************************)
(* getCompanies(options).  An options object is the sequence of its        *)
(* <<key, value>> pairs in insertion order, keys distinct.                 *)
(***************************************************************************)
\* largest number of keys in an options object tried
MaxOptions == 2

OptionPairs == {<<"type", "vendor">>, <<"type", "other">>, <<"state", "ca">>}

OptionObjects ==
    {o \in UNION {[1..n -> OptionPairs] : n \in 0..MaxOptions} :
        \A i, j \in 1..Len(o) : i # j => o[i][1] # o[j][1]}

hasKey(object, key) == \E i \in 1..Len(object) : object[i][1] = key

getKey(object, key) == object[CHOOSE i \in 1..Len(object) : object[i][1] = key][2]

\* restParams that leaves the type key among the params
restParams_keepsType(options) == options

\* { type, ...params }: params is the object without its type key
restParams(options) == SelectSeq(options, LAMBDA kv : kv[1] # "type")

typeDefaults ==
    <<<<"vendor", "isVendor">>, <<"customer", "isCustomer">>,
      <<"contractor", "isContractor">>, <<"contractee", "isContractee">>>>

\* typeParams: the flag of a recognised type, else the empty object
typeParams(options) ==
    IF hasKey(options, "type") /\ hasKey(typeDefaults, getKey(options, "type"))
    THEN <<<<getKey(typeDefaults, getKey(options, "type")), "true">>>>
    ELSE <<>>

\* { ...a, ...b }: b's value wins, a's keys keep their place
spread(a, b) ==
    [i \in 1..Len(a) |-> IF hasKey(b, a[i][1]) THEN <<a[i][1], getKey(b, a[i][1])>> ELSE a[i]]
        \o SelectSeq(b, LAMBDA kv : ~hasKey(a, kv[1]))

finalParams(options) == spread(typeParams(options), restParams(options))

(***************************************************************************)
(* The query string.  A string of the program is a sequence of characters; *)
(* chars gives the characters of the keys and values used here.            *)
(***************************************************************************)
chars(s) ==
    CASE s = "type" -> <<"t", "y", "p", "e">>
      [] s = "vendor" -> <<"v", "e", "n", "d", "o", "r">>
      [] s = "contractee" -> <<"c", "o", "n", "t", "r", "a", "c", "t", "e", "e">>
      [] s = "other" -> <<"o", "t", "h", "e", "r">>
      [] s = "isVendor" -> <<"i", "s", "V", "e", "n", "d", "o", "r">>
      [] s = "isCustomer" -> <<"i", "s", "C", "u", "s", "t", "o", "m", "e", "r">>
      [] s = "isContractor" -> <<"i", "s", "C", "o", "n", "t", "r", "a", "c", "t", "o", "r">>
      [] s = "isContractee" -> <<"i", "s", "C", "o", "n", "t", "r", "a", "c", "t", "e", "e">>
      [] s = "true" -> <<"t", "r", "u", "e">>
      [] s = "false" -> <<"f", "a", "l", "s", "e">>
      [] s = "state" -> <<"s", "t", "a", "t", "e">>
      [] s = "ca" -> <<"c", "a">>
      [] s = "CA" -> <<"C", "A">>
      [] s = "name" -> <<"n", "a", "m", "e">>
      [] s = "a&b" -> <<"a", "&", "b">>
      [] s = "x=y" -> <<"x", "=", "y">>
      [] s = "a b" -> <<"a", " ", "b">>
      [] s = "%26" -> <<"%", "2", "6">>
      [] s = "" -> <<>>

\* the characters used here that encodeURIComponent escapes (it leaves
\* letters, digits and - _ . ! ~ * ' ( ) alone), with their UTF-8 escapes
\* escapeOf that lets "&" through
escapeOf_ampersandRaw(c) ==
    CASE c = "=" -> <<"%", "3", "D">>
      [] c = " " -> <<"%", "2", "0">>
      [] c = "%" -> <<"%", "2", "5">>
      [] OTHER -> <<c>>

escapeOf(c) ==
    CASE c = "&" -> <<"%", "2", "6">>
      [] c = "=" -> <<"%", "3", "D">>
      [] c = " " -> <<"%", "2", "0">>
      [] c = "%" -> <<"%", "2", "5">>
      [] OTHER -> <<c>>

RECURSIVE encodeURIComponent(_)
encodeURIComponent(str) ==
    IF str = <<>> THEN <<>>
    ELSE escapeOf(Head(str)) \o encodeURIComponent(Tail(str))

RECURSIVE join(_, _)
join(strs, separator) ==
    IF strs = <<>> THEN <<>>
    ELSE IF Len(strs) = 1 THEN strs[1]
    ELSE strs[1] \o separator \o join(Tail(strs), separator)

\* Object.keys(finalParams).map(key => encoded key = encoded value).join('&')
buildQueryParams(params) ==
    join([i \in 1..Len(params) |->
              encodeURIComponent(chars(params[i][1])) \o <<"=">>
                  \o encodeURIComponent(chars(params[i][2]))],
         <<"&">>)

\* responses of the company endpoint: a status, and whether the body parses
CompanyResponse(code, body) == [threw |-> FALSE, code |-> code, cookie |-> body]
CompanyFetches ==
    {CompanyResponse(200, "json"), CompanyResponse(200, "not json"),
     CompanyResponse(404, ""), FetchThrew}

statusText(code) == IF code = 404 THEN "404" ELSE "other"

CompanyRequest(cookie, query) == Request("get", "/api/company", cookie, query)

\* getCompanies without the check for a stored credential
getCompanies_noAuthCheck(props, trigs, options, fetch) ==
    LET cookie == IF hasProperty(props, "SESSION_COOKIES")
                  THEN props["SESSION_COOKIES"] ELSE ""
        requests == <<CompanyRequest(cookie, buildQueryParams(finalParams(options)))>>
    IN  IF fetch.threw
        THEN Outcome(props, trigs,
                     ReturnObject(FALSE, "Error retrieving companies: fetch failed"),
                     requests)
        ELSE IF fetch.code = 200 THEN
            IF fetch.cookie = "json"
            THEN Outcome(props, trigs, ReturnData(fetch.cookie), requests)
            ELSE Outcome(props, trigs,
                         ReturnObject(FALSE, "Error retrieving companies: parse failed"),
                         requests)
        ELSE Outcome(props, trigs,
                     ReturnObject(FALSE, "Failed to retrieve companies: "
                                             \o statusText(fetch.code)),
                     requests)

\* getCompanies without the try/catch around the fetch and the parse
getCompanies_noTryCatch(props, trigs, options, fetch) ==
    IF ~hasProperty(props, "SESSION_COOKIES")
    THEN Outcome(props, trigs,
                 ReturnObject(FALSE, "Not authenticated. Please log in first."), <<>>)
    ELSE LET requests == <<CompanyRequest(props["SESSION_COOKIES"],
                                          buildQueryParams(finalParams(options)))>>
         IN  IF fetch.threw
             THEN Outcome(props, trigs, Throw("fetch failed"), requests)
             ELSE IF fetch.code = 200 THEN
                 IF fetch.cookie = "json"
                 THEN Outcome(props, trigs, ReturnData(fetch.cookie), requests)
                 ELSE Outcome(props, trigs, Throw("parse failed"), requests)
             ELSE Outcome(props, trigs,
                          ReturnObject(FALSE, "Failed to retrieve companies: "
                                                  \o statusText(fetch.code)),
                          requests)

\* getCompanies dropping the session when the server refuses the request
getCompanies_clearsOnFailure(props, trigs, options, fetch) ==
    IF ~hasProperty(props, "SESSION_COOKIES")
    THEN Outcome(props, trigs,
                 ReturnObject(FALSE, "Not authenticated. Please log in first."), <<>>)
    ELSE LET requests == <<CompanyRequest(props["SESSION_COOKIES"],
                                          buildQueryParams(finalParams(options)))>>
         IN  IF fetch.threw
             THEN Outcome(props, trigs,
                          ReturnObject(FALSE, "Error retrieving companies: fetch failed"),
                          requests)
             ELSE IF fetch.code = 200 THEN
                 IF fetch.cookie = "json"
                 THEN Outcome(props, trigs, ReturnData(fetch.cookie), requests)
                 ELSE Outcome(props, trigs,
                              ReturnObject(FALSE, "Error retrieving companies: parse failed"),
                              requests)
             ELSE Outcome(deleteProperty(deleteProperty(props, "SESSION_COOKIES"),
                                         "SESSION_EXPIRATION"),
                          _deleteExistingTriggers(trigs, SessionCheckHandler),
                          ReturnObject(FALSE, "Failed to retrieve companies: "
                                                  \o statusText(fetch.code)),
                          requests)

\* getCompanies refusing a session that is past its expiration
getCompanies_checksExpiration(props, trigs, options, fetch) ==
    IF ~hasProperty(props, "SESSION_COOKIES") \/ isExpired(props, now)
    THEN Outcome(props, trigs,
                 ReturnObject(FALSE, "Not authenticated. Please log in first."), <<>>)
    ELSE LET requests == <<CompanyRequest(props["SESSION_COOKIES"],
                                          buildQueryParams(finalParams(options)))>>
         IN  IF fetch.threw
             THEN Outcome(props, trigs,
                          ReturnObject(FALSE, "Error retrieving companies: fetch failed"),
                          requests)
             ELSE IF fetch.code = 200 THEN
                 IF fetch.cookie = "json"
                 THEN Outcome(props, trigs, ReturnData(fetch.cookie), requests)
                 ELSE Outcome(props, trigs,
                              ReturnObject(FALSE, "Error retrieving companies: parse failed"),
                              requests)
             ELSE Outcome(props, trigs,
                          ReturnObject(FALSE, "Failed to retrieve companies: "
                                                  \o statusText(fetch.code)),
                          requests)

getCompanies(props, trigs, options, fetch) ==
    IF ~hasProperty(props, "SESSION_COOKIES")
    THEN Outcome(props, trigs,
                 ReturnObject(FALSE, "Not authenticated. Please log in first."), <<>>)
    ELSE LET requests == <<CompanyRequest(props["SESSION_COOKIES"],
                                          buildQueryParams(finalParams(options)))>>
         IN  IF fetch.threw
             THEN Outcome(props, trigs,
                          ReturnObject(FALSE, "Error retrieving companies: fetch failed"),
                          requests)
             ELSE IF fetch.code = 200 THEN
                 IF fetch.cookie = "json"
                 THEN Outcome(props, trigs, ReturnData(fetch.cookie), requests)
                 ELSE Outcome(props, trigs,
                              ReturnObject(FALSE, "Error retrieving companies: parse failed"),
                              requests)
             ELSE Outcome(props, trigs,
                          ReturnObject(FALSE, "Failed to retrieve companies: "
                                                  \o statusText(fetch.code)),
                          requests)

(***************************************************************************)
(* The state machine.                                                      *)
(***************************************************************************)
NoLength == Num(0, FALSE)
NoFetch == [threw |-> FALSE, code |-> 0, cookie |-> ""]

\* the record of a call: what was called with what, what the transport
\* answered (when it was asked), what came out, and whether it came right after a successful login
Call(op, timeoutLength, unit, options, fetch, out, afterLogin) ==
    [op |-> op, timeoutLength |-> timeoutLength, unit |-> unit, options |-> options,
     fetch |-> IF out.requests = <<>> THEN NoFetch ELSE fetch,
     result |-> out.result, requests |-> out.requests, afterLogin |-> afterLogin]

NoCall(op, afterLogin) ==
    [op |-> op, timeoutLength |-> NoLength, unit |-> "", options |-> <<>>,
     fetch |-> NoFetch, result |-> ReturnString("undefined"), requests |-> <<>>,
     afterLogin |-> afterLogin]

\* the call recorded is a login that succeeded
JustLoggedIn == last.op = "login" /\ last.result.success

\* no isUserLoggedIn is between its read and its logout
Idle == [pc |-> "idle", expiration |-> <<>>]

Init ==
    /\ scriptProps = NoProperties
    /\ triggers = <<ForeignTrigger>>
    /\ now = 0
    /\ last = NoCall("init", FALSE)
    /\ running = Idle
    /\ firings = 0

Finish(op, timeoutLength, unit, options, fetch, out) ==
    /\ scriptProps' = out.props
    /\ triggers' = out.triggers
    /\ last' = Call(op, timeoutLength, unit, options, fetch, out, JustLoggedIn)
    /\ UNCHANGED <<now, running, firings>>

Login ==
    \E timeoutLength \in TimeoutLengths, unit \in Units, fetch \in LoginFetches :
        Finish("login", timeoutLength, unit, <<>>, fetch,
               login(scriptProps, triggers, now, timeoutLength, unit, fetch))

Logout ==
    \E fetch \in LogoutFetches :
        Finish("logout", NoLength, "", <<>>, fetch,
               logout(scriptProps, triggers, fetch))

IsUserLoggedIn ==
    \E fetch \in LogoutFetches :
        Finish("isUserLoggedIn", NoLength, "", <<>>, fetch,
               isUserLoggedIn(scriptProps, triggers, now, fetch))

\* the scheduler runs the installed trigger
SessionCheck ==
    /\ Len(SessionTriggers(triggers)) > 0
    /\ \E fetch \in LogoutFetches, fetch2 \in LogoutFetches :
        Finish("sessionCheck", NoLength, "", <<>>, fetch,
               internalTriggerForSessionCheck(scriptProps, triggers, now, fetch, fetch2))

GetCompanies ==
    \E options \in OptionObjects, fetch \in CompanyFetches :
        Finish("getCompanies", NoLength, "", options, fetch,
               getCompanies(scriptProps, triggers, options, fetch))

\* time passes between calls
Tick ==
    /\ \E step \in TickSteps :
        /\ now + step <= MaxTicks * 30
        /\ now' = now + step
    /\ last' = NoCall("tick", JustLoggedIn)
    /\ UNCHANGED <<scriptProps, triggers, running, firings>>

Next ==
    \/ Login
    \/ Logout
    \/ IsUserLoggedIn
    \/ SessionCheck
    \/ GetCompanies
    \/ Tick

Spec == Init /\ [][Next]_vars

(***************************************************************************)
(* The query client on its own: default logins and getCompanies calls over *)
(* a wider set of options (a key that is also a type flag, values with     *)
(* characters that encodeURIComponent escapes).                            *)
(***************************************************************************)
\* largest number of keys in an options object tried here
MaxQueryOptions == 2

QueryOptionPairs ==
    {<<"type", "vendor">>, <<"type", "other">>,
     <<"state", "ca">>,
     <<"isVendor", "false">>,
     <<"name", "a&b">>, <<"name", "x=y">>, <<"name", "%26">>}

QueryOptionObjects ==
    {o \in UNION {[1..n -> QueryOptionPairs] : n \in 0..MaxQueryOptions} :
        \A i, j \in 1..Len(o) : i # j => o[i][1] # o[j][1]}

GetCompaniesQuery ==
    \E options \in QueryOptionObjects, fetch \in CompanyFetches :
        Finish("getCompanies", NoLength, "", options, fetch,
               getCompanies(scriptProps, triggers, options, fetch))

\* login(email, password): timeoutLength and unit take their defaults
LoginDefault ==
    \E fetch \in LoginFetches :
        Finish("login", Num(1, FALSE), "hours", <<>>, fetch,
               login(scriptProps, triggers, now, Num(1, FALSE), "hours", fetch))

NextQuery ==
    \/ LoginDefault
    \/ GetCompaniesQuery

SpecQuery == Init /\ [][NextQuery]_vars

(***************************************************************************)
(* The earlier draft of the session functions (STLIB.js): timeouts in      *)
(* hours only, no validation, a trigger on sessionStatusDispatcher.  The   *)
(* first draft in auth.js is the same code with the private names prefixed *)
(* by an underscore.                                                       *)
(***************************************************************************)
DraftTimeouts == {1, 2}
DraftFrequencies == {1, 2}

getSessionCookies(props) == hasProperty(props, "SESSION_COOKIES")

getHours(date) == (date \div 60) % 24

\* Date.prototype.setHours: replaces the hours field, carrying overflow
setHours(date, hours) == (date - getHours(date) * 60) + hours * 60

setSessionTimeout(props, date, timeoutLength) ==
    setProperty(props, "SESSION_EXPIRATION",
                toISOString(setHours(date, getHours(date) + timeoutLength)))

deleteExistingTriggers(trigs, functionName) ==
    SelectSeq(trigs, LAMBDA t : t.handler # functionName)

createSessionCheckTrigger(trigs, checkHourFreq) ==
    Append(deleteExistingTriggers(trigs, "sessionStatusDispatcher"),
           everyHours(newTrigger("sessionStatusDispatcher"), checkHourFreq))

\* the triggers login registered through createSessionCheckTrigger
DispatcherTriggers(trigs) ==
    SelectSeq(trigs, LAMBDA t : t.handler = "sessionStatusDispatcher")

STLIB_login(props, trigs, date, timeoutLength, checkHourFreq, fetch) ==
    IF fetch.threw
    THEN Outcome(props, trigs, Throw("fetch failed"), <<AuthRequest>>)
    ELSE IF fetch.code = 200
    THEN Outcome(setSessionTimeout(setProperty(props, "SESSION_COOKIES", fetch.cookie),
                                   date, timeoutLength),
                 createSessionCheckTrigger(trigs, checkHourFreq),
                 ReturnObject(TRUE, ""),
                 <<AuthRequest>>)
    ELSE Outcome(props, trigs, ReturnObject(FALSE, "Invalid login credentials"),
                 <<AuthRequest>>)

STLIB_logout(props, trigs, fetch) ==
    IF getSessionCookies(props) THEN
        IF fetch.threw
        THEN Outcome(props, trigs, Throw("fetch failed"),
                     <<LogoutRequest(props["SESSION_COOKIES"])>>)
        ELSE Outcome(deleteProperty(deleteProperty(props, "SESSION_COOKIES"),
                                    "SESSION_EXPIRATION"),
                     deleteExistingTriggers(trigs, "checkSessionStatus"),
                     ReturnString(IF fetch.code = 204 THEN "Logout successful"
                                                      ELSE "Logout failed"),
                     <<LogoutRequest(props["SESSION_COOKIES"])>>)
    ELSE Outcome(props, trigs, ReturnString("No active session to log out from."), <<>>)

STLIB_isUserLoggedIn(props, trigs, date, fetch) ==
    IF ~getSessionCookies(props)
    THEN Outcome(props, trigs, ReturnBoolean(FALSE), <<>>)
    ELSE IF isExpired(props, date) THEN
        LET out == STLIB_logout(props, trigs, fetch)
        IN  IF out.result.kind = "throw" THEN out
            ELSE [out EXCEPT !.result = ReturnBoolean(FALSE)]
    ELSE Outcome(props, trigs, ReturnBoolean(TRUE), <<>>)

\* it only logs what isUserLoggedIn answered
_checkSessionStatus(props, trigs, date, fetch) ==
    LET check == STLIB_isUserLoggedIn(props, trigs, date, fetch)
    IN  IF check.result.kind = "throw" THEN check
        ELSE [check EXCEPT !.result = ReturnString("undefined")]

sessionStatusDispatcher(props, trigs, date, fetch) ==
    _checkSessionStatus(props, trigs, date, fetch)

DraftLogin ==
    \E timeoutLength \in DraftTimeouts, checkHourFreq \in DraftFrequencies,
       fetch \in LoginFetches :
        Finish("login", Num(timeoutLength, FALSE), "hours", <<>>, fetch,
               STLIB_login(scriptProps, triggers, now, timeoutLength, checkHourFreq, fetch))

DraftLogout ==
    \E fetch \in LogoutFetches :
        Finish("logout", NoLength, "", <<>>, fetch,
               STLIB_logout(scriptProps, triggers, fetch))

DraftIsUserLoggedIn ==
    \E fetch \in LogoutFetches :
        Finish("isUserLoggedIn", NoLength, "", <<>>, fetch,
               STLIB_isUserLoggedIn(scriptProps, triggers, now, fetch))

\* the scheduler runs the trigger the draft installed
DraftSessionCheck ==
    /\ Len(DispatcherTriggers(triggers)) > 0
    /\ \E fetch \in LogoutFetches :
        Finish("sessionCheck", NoLength, "", <<>>, fetch,
               sessionStatusDispatcher(scriptProps, triggers, now, fetch))

NextDraft ==
    \/ DraftLogin
    \/ DraftLogout
    \/ DraftIsUserLoggedIn
    \/ DraftSessionCheck
    \/ Tick

SpecDraft == Init /\ [][NextDraft]_vars

(***************************************************************************)
(* The session check run by hand: librarySessionCheckTrigger is a function *)
(* of the host project, and internalTriggerForSessionCheck is public, so   *)
(* the check can run whether or not a trigger is installed.                *)
(***************************************************************************)
DirectSessionCheck ==
    \E fetch \in LogoutFetches, fetch2 \in LogoutFetches :
        Finish("sessionCheck", NoLength, "", <<>>, fetch,
               internalTriggerForSessionCheck(scriptProps, triggers, now, fetch, fetch2))

NextCheck ==
    \/ LoginDefault
    \/ Logout
    \/ DirectSessionCheck
    \/ Tick

SpecCheck == Init /\ [][NextCheck]_vars

(***************************************************************************)
(* login over every timeout length up to MaxInterval, for the trigger it   *)
(* registers.                                                              *)
(***************************************************************************)
MaxInterval == 30

IntervalLengths == {Num(n, FALSE) : n \in 0..MaxInterval} \cup {Num(1, TRUE)}

LoginAnyInterval ==
    \E timeoutLength \in IntervalLengths, unit \in Units, fetch \in LoginFetches :
        Finish("login", timeoutLength, unit, <<>>, fetch,
               login(scriptProps, triggers, now, timeoutLength, unit, fetch))

NextIntervals ==
    \/ LoginAnyInterval
    \/ Logout

SpecIntervals == Init /\ [][NextIntervals]_vars

(***************************************************************************)
(* isUserLoggedIn without serialization: between reading the store        *)
(* (auth.js:254-262) and calling logout() (auth.js:263) other invocations  *)
(* may run.  logout() reads the store again.                               *)
(***************************************************************************)
\* expirationRead with >= for >
expirationRead_nonStrict(props, date) ==
    IF ~_getSessionCookies(props) THEN "false"
    ELSE IF /\ hasProperty(props, "SESSION_EXPIRATION")
            /\ date >= parseDate(props["SESSION_EXPIRATION"]) THEN "logout"
    ELSE "true"

\* what isUserLoggedIn decides from what it read
expirationRead(props, date) ==
    IF ~_getSessionCookies(props) THEN "false"
    ELSE IF isExpired(props, date) THEN "logout"
    ELSE "true"

RaceRead ==
    /\ running = Idle
    /\ IF expirationRead(scriptProps, now) = "logout"
       THEN /\ running' = [pc |-> "logout", expiration |-> expirationOf(scriptProps)]
            /\ last' = NoCall("expirationRead", JustLoggedIn)
       ELSE /\ running' = Idle
            /\ last' = Call("isUserLoggedIn", NoLength, "", <<>>, NoFetch,
                            Outcome(scriptProps, triggers,
                                    ReturnBoolean(expirationRead(scriptProps, now) = "true"),
                                    <<>>),
                            JustLoggedIn)
    /\ UNCHANGED <<scriptProps, triggers, now, firings>>

RaceLogout ==
    /\ running.pc = "logout"
    /\ \E fetch \in LogoutFetches :
        LET out == logout(scriptProps, triggers, fetch)
        IN  /\ scriptProps' = out.props
            /\ triggers' = out.triggers
            /\ last' = Call("isUserLoggedIn", NoLength, "", <<>>, fetch,
                            IF out.result.kind = "throw" THEN out
                            ELSE [out EXCEPT !.result = ReturnBoolean(FALSE)],
                            JustLoggedIn)
    /\ running' = Idle
    /\ UNCHANGED <<now, firings>>

NextRace ==
    \/ LoginDefault
    \/ Logout
    \/ RaceRead
    \/ RaceLogout
    \/ Tick

SpecRace == Init /\ [][NextRace]_vars

(***************************************************************************)
(* The session left alone after login: only the clock and the installed    *)
(* trigger run.  The clock of the model stops at MaxTicks, so a login is   *)
(* taken only while its expiration lies before that.                       *)
(***************************************************************************)
LiveTimeouts == {Num(1, FALSE), Num(30, FALSE)}

\* the timeout of login(..., timeoutLength, unit) in minutes
minutesOf(timeoutLength, unit) ==
    IF unit = "hours" THEN timeoutLength.whole * 60 ELSE timeoutLength.whole

LoginLive ==
    \E timeoutLength \in LiveTimeouts, unit \in {"minutes", "hours"},
       fetch \in LoginFetches :
        /\ now + minutesOf(timeoutLength, unit) < MaxTicks * 30
        /\ Finish("login", timeoutLength, unit, <<>>, fetch,
                  login(scriptProps, triggers, now, timeoutLength, unit, fetch))

\* the scheduler fires the installed trigger
TriggerFires ==
    /\ Len(SessionTriggers(triggers)) > 0
    /\ \E fetch \in LogoutFetches, fetch2 \in LogoutFetches :
        LET out == internalTriggerForSessionCheck(scriptProps, triggers, now,
                                                  fetch, fetch2)
        IN  /\ scriptProps' = out.props
            /\ triggers' = out.triggers
            /\ last' = Call("sessionCheck", NoLength, "", <<>>, fetch, out, JustLoggedIn)
    /\ firings' = 1 - firings
    /\ UNCHANGED <<now, running>>

NextLive ==
    \/ LoginLive
    \/ TriggerFires
    \/ Tick

\* the clock keeps advancing and the scheduler keeps firing the trigger
SpecLive ==
    /\ Init
    /\ [][NextLive]_vars
    /\ WF_vars(Tick)
    /\ WF_vars(TriggerFires)

\* a firing of the trigger whose requests all get an answer
TriggerFiresAnswered ==
    /\ Len(SessionTriggers(triggers)) > 0
    /\ \E fetch \in LogoutFetches \ {FetchThrew}, fetch2 \in LogoutFetches \ {FetchThrew} :
        LET out == internalTriggerForSessionCheck(scriptProps, triggers, now,
                                                  fetch, fetch2)
        IN  /\ scriptProps' = out.props
            /\ triggers' = out.triggers
            /\ last' = Call("sessionCheck", NoLength, "", <<>>, fetch, out, JustLoggedIn)
    /\ firings' = 1 - firings
    /\ UNCHANGED <<now, running>>

NextLiveAnswered ==
    \/ LoginLive
    \/ TriggerFiresAnswered
    \/ Tick

\* the same, over a transport that answers every DELETE
SpecLiveAnswered ==
    /\ Init
    /\ [][NextLiveAnswered]_vars
    /\ WF_vars(Tick)
    /\ WF_vars(TriggerFiresAnswered)

(***************************************************************************)
(* Properties.                                                             *)
(***************************************************************************)
credentialStored == hasProperty(scriptProps, "SESSION_COOKIES")
expirationStored == hasProperty(scriptProps, "SESSION_EXPIRATION")
checkRegistered == Len(SessionTriggers(triggers)) > 0

\* the step left the store and the project triggers as they were
StoreUnchanged == scriptProps' = scriptProps /\ triggers' = triggers

\* the call recorded asked the transport and got a status back
GotStatus(call) == call.requests # <<>> /\ ~call.fetch.threw

\* C1: a login whose authentication request returns a status other than 200
\* returns {success: false, message} and leaves the credential, the
\* expiration and the triggers as they were, whether or not a session was
\* stored before.
C1_FailedLoginKeepsState ==
    [][(last'.op = "login" /\ GotStatus(last') /\ last'.fetch.code # 200)
        => /\ last'.result = ReturnObject(FALSE, "Invalid login credentials")
           /\ StoreUnchanged]_vars

\* a failed re-login: the status was 401 and the earlier session is still stored
C1_Witness ==
    /\ last.op = "login" /\ GotStatus(last) /\ last.fetch.code = 401
    /\ credentialStored /\ expirationStored /\ checkRegistered

\* C2: login with unit 'minutes' and a timeoutLength outside {1, 5, 10, 15, 30}
\* throws the validation error, issues no request and leaves the store and
\* the triggers unchanged.
C2_MinutesOutsideSetRejected ==
    [][(/\ last'.op = "login" /\ last'.unit = "minutes"
        /\ ~(~last'.timeoutLength.frac /\ last'.timeoutLength.whole \in {1, 5, 10, 15, 30}))
        => /\ last'.result = Throw("Invalid timeout length for minutes")
           /\ last'.requests = <<>>
           /\ StoreUnchanged]_vars

\* login(..., 2, 'minutes') was rejected while a session was stored
C2_Witness ==
    /\ last.op = "login" /\ last.unit = "minutes" /\ last.timeoutLength = Num(2, FALSE)
    /\ last.result.kind = "throw" /\ last.requests = <<>>
    /\ credentialStored

\* C3: login with unit 'hours' and a timeoutLength that is not an integer >= 1,
\* or with a unit other than 'hours' and 'minutes', throws before any request
\* is issued and changes neither the store nor the triggers.
C3_HoursAndUnitValidated ==
    [][(/\ last'.op = "login"
        /\ \/ /\ last'.unit = "hours"
              /\ (last'.timeoutLength.frac \/ last'.timeoutLength.whole < 1)
           \/ last'.unit \notin {"hours", "minutes"})
        => /\ last'.result.kind = "throw"
           /\ last'.requests = <<>>
           /\ StoreUnchanged]_vars

\* login(..., 0, 'hours') was rejected
C3_Witness ==
    /\ last.op = "login" /\ last.unit = "hours" /\ last.timeoutLength = Num(0, FALSE)
    /\ last.result = Throw("Invalid timeout length for hours")
    /\ last.requests = <<>>

\* the timeout of the login recorded, in minutes
TimeoutMinutes(call) ==
    IF call.unit = "hours" THEN call.timeoutLength.whole * 60
    ELSE call.timeoutLength.whole

\* C4: a login that passes validation and receives status 200 issues exactly
\* one request; on return the store holds the credential of the response and
\* expiresAt = now + timeoutLength (an hour being 60 minutes), a recurring
\* check is registered and the result is {success: true}.
C4_LoginSuccessStoresSession ==
    (last.op = "login" /\ GotStatus(last) /\ last.fetch.code = 200)
        => /\ last.requests = <<AuthRequest>>
           /\ credentialStored
           /\ scriptProps["SESSION_COOKIES"] = last.fetch.cookie
           /\ expirationStored
           /\ parseDate(scriptProps["SESSION_EXPIRATION"]) = now + TimeoutMinutes(last)
           /\ checkRegistered
           /\ last.result = ReturnObject(TRUE, "")

\* a login of 2 hours succeeded after the clock had advanced
C4_Witness ==
    /\ last.op = "login" /\ last.result.success
    /\ last.unit = "hours" /\ last.timeoutLength = Num(2, FALSE)
    /\ now > 0

\* C5: isUserLoggedIn called right after a successful login (no clock
\* advance, nothing in between) returns true and leaves the credential, the
\* expiration and the triggers unchanged, for every accepted
\* (timeoutLength, unit).
C5_LoggedInRightAfterLogin ==
    [][(JustLoggedIn /\ last'.op = "isUserLoggedIn")
        => /\ last'.result = ReturnBoolean(TRUE)
           /\ last'.requests = <<>>
           /\ StoreUnchanged]_vars

\* isUserLoggedIn returned true right after a successful login
C5_Witness ==
    /\ last.op = "isUserLoggedIn" /\ last.afterLogin
    /\ last.result = ReturnBoolean(TRUE)
    /\ credentialStored

\* the stored session has expired: the clock is past the stored expiration
sessionExpired ==
    /\ credentialStored /\ expirationStored
    /\ now > parseDate(scriptProps["SESSION_EXPIRATION"])

\* C6: isUserLoggedIn called on an expired session returns false and leaves
\* neither credential nor expiration stored; called again it returns false
\* once more, without a request and without changing anything.
C6_ExpiredSessionCleared ==
    [][/\ (last'.op = "isUserLoggedIn" /\ sessionExpired)
            => /\ last'.result = ReturnBoolean(FALSE)
               /\ ~credentialStored' /\ ~expirationStored'
       /\ (/\ last.op = "isUserLoggedIn" /\ last.result = ReturnBoolean(FALSE)
           /\ last'.op = "isUserLoggedIn")
            => /\ last'.result = ReturnBoolean(FALSE)
               /\ last'.requests = <<>>
               /\ StoreUnchanged]_vars

\* C7: logout with no credential stored returns the "no active session"
\* message, issues no request and leaves the store and the triggers unchanged.
C7_LogoutWithoutSession ==
    [][(last'.op = "logout" /\ ~credentialStored)
        => /\ last'.result = ReturnString("No active session to log out from.")
           /\ last'.requests = <<>>
           /\ StoreUnchanged]_vars

\* logout found nothing to log out from
C7_Witness ==
    /\ last.op = "logout"
    /\ last.result = ReturnString("No active session to log out from.")
    /\ last.requests = <<>>
    /\ ~credentialStored

\* C8: logout with a credential stored clears the credential and the
\* expiration even when the remote call answers a status other than 204.
C8_LogoutClearsOnOtherStatus ==
    [][(/\ last'.op = "logout" /\ credentialStored
        /\ GotStatus(last') /\ last'.fetch.code # 204)
        => ~credentialStored' /\ ~expirationStored']_vars

\* logout got status 500 and the store is empty
C8_Witness ==
    /\ last.op = "logout" /\ GotStatus(last) /\ last.fetch.code = 500
    /\ last.result = ReturnString("Logout failed")
    /\ ~credentialStored /\ ~expirationStored

\* C9: logout with a credential stored leaves no credential, no expiration
\* and no recurring check behind, whether the remote call answers 204, answers
\* another status, or throws.
C9_LogoutAlwaysReleases ==
    [][(last'.op = "logout" /\ credentialStored)
        => ~credentialStored' /\ ~expirationStored' /\ ~checkRegistered']_vars

\* C10: getCompanies with no credential stored returns the not-authenticated
\* failure and issues no request, whatever the options.
C10_QueryNeedsCredential ==
    [][(last'.op = "getCompanies" /\ ~credentialStored)
        => /\ last'.result = ReturnObject(FALSE, "Not authenticated. Please log in first.")
           /\ last'.requests = <<>>]_vars

\* getCompanies({type: "vendor"}) was refused while logged out
C10_Witness ==
    /\ last.op = "getCompanies"
    /\ hasKey(last.options, "type") /\ getKey(last.options, "type") = "vendor"
    /\ last.result = ReturnObject(FALSE, "Not authenticated. Please log in first.")
    /\ last.requests = <<>>
    /\ ~credentialStored

(***************************************************************************)
(* Reading a query string back: split at "&", split each part at its first *)
(* "=", undo the percent escapes.                                          *)
(***************************************************************************)
indexOf(str, c) ==
    IF \E i \in 1..Len(str) : str[i] = c
    THEN CHOOSE i \in 1..Len(str) : str[i] = c /\ \A j \in 1..(i - 1) : str[j] # c
    ELSE 0

RECURSIVE split(_, _)
split(str, c) ==
    IF indexOf(str, c) = 0 THEN <<str>>
    ELSE <<SubSeq(str, 1, indexOf(str, c) - 1)>>
             \o split(SubSeq(str, indexOf(str, c) + 1, Len(str)), c)

\* the key=value parts of a query string
segments(query) == IF query = <<>> THEN <<>> ELSE split(query, "&")

segmentKey(segment) ==
    IF indexOf(segment, "=") = 0 THEN segment
    ELSE SubSeq(segment, 1, indexOf(segment, "=") - 1)

segmentValue(segment) ==
    IF indexOf(segment, "=") = 0 THEN <<>>
    ELSE SubSeq(segment, indexOf(segment, "=") + 1, Len(segment))

unescapeOf(h1, h2) ==
    CASE h1 = "2" /\ h2 = "6" -> "&"
      [] h1 = "3" /\ h2 = "D" -> "="
      [] h1 = "2" /\ h2 = "0" -> " "
      [] h1 = "2" /\ h2 = "5" -> "%"
      [] OTHER -> "?"

RECURSIVE decodeURIComponent(_)
decodeURIComponent(str) ==
    IF str = <<>> THEN <<>>
    ELSE IF Head(str) = "%" /\ Len(str) >= 3
    THEN <<unescapeOf(str[2], str[3])>> \o decodeURIComponent(SubSeq(str, 4, Len(str)))
    ELSE <<Head(str)>> \o decodeURIComponent(Tail(str))

\* the set of <<key, value>> pairs a query string decodes to
decodeQuery(query) ==
    {<<decodeURIComponent(segmentKey(segments(query)[i])),
       decodeURIComponent(segmentValue(segments(query)[i]))>> :
        i \in 1..Len(segments(query))}

\* the call recorded is a getCompanies that sent its GET
QuerySent == last.op = "getCompanies" /\ last.requests # <<>>

\* the query string of the GET recorded
sentQuery == last.requests[1].query

\* the query string has a part key=value, both as encodeURIComponent writes them
HasPart(query, key, value) ==
    \E i \in 1..Len(segments(query)) :
        segments(query)[i] = encodeURIComponent(chars(key)) \o <<"=">>
                                 \o encodeURIComponent(chars(value))

NoTypeKey(query) ==
    \A i \in 1..Len(segments(query)) :
        decodeURIComponent(segmentKey(segments(query)[i])) # chars("type")

\* every key of the options other than type is in the string with its value
OthersForwarded(options, query) ==
    \A i \in 1..Len(options) :
        options[i][1] # "type" => HasPart(query, options[i][1], options[i][2])

RecognisedTypes == {"vendor", "customer", "contractor", "contractee"}

FlagOf(type) ==
    CASE type = "vendor" -> "isVendor"
      [] type = "customer" -> "isCustomer"
      [] type = "contractor" -> "isContractor"
      [] type = "contractee" -> "isContractee"

\* C11 as stated: the query string has no key type; for a recognised
\* options.type it has the flag of that type with value true; every other
\* key of the options is forwarded with its own value.
C11_TypeBecomesFlag ==
    QuerySent =>
        /\ NoTypeKey(sentQuery)
        /\ (hasKey(last.options, "type") /\ getKey(last.options, "type") \in RecognisedTypes)
            => HasPart(sentQuery, FlagOf(getKey(last.options, "type")), "true")
        /\ OthersForwarded(last.options, sentQuery)

\* C11 amended: the flag of a recognised type is in the string with value
\* true unless the options supply that flag key themselves (then the supplied
\* value is what is sent); no key type; every other key forwarded.
C11_TypeBecomesDefaultFlag ==
    QuerySent =>
        /\ NoTypeKey(sentQuery)
        /\ (/\ hasKey(last.options, "type")
            /\ getKey(last.options, "type") \in RecognisedTypes
            /\ ~hasKey(last.options, FlagOf(getKey(last.options, "type"))))
            => HasPart(sentQuery, FlagOf(getKey(last.options, "type")), "true")
        /\ OthersForwarded(last.options, sentQuery)

\* getCompanies({type: "vendor", state: "ca"}) sent isVendor=true&state=ca
C11_Witness ==
    /\ QuerySent
    /\ last.options = <<<<"type", "vendor">>, <<"state", "ca">>>>
    /\ sentQuery = chars("isVendor") \o <<"=">> \o chars("true") \o <<"&">>
                       \o chars("state") \o <<"=">> \o chars("ca")

\* C12: for options without a type key, decoding the query string sent gives
\* back exactly the key/value pairs of the options.
C12_QueryRoundTrip ==
    (QuerySent /\ ~hasKey(last.options, "type"))
        => decodeQuery(sentQuery) =
               {<<chars(last.options[i][1]), chars(last.options[i][2])>> :
                    i \in 1..Len(last.options)}

\* a round trip through escapes: {name: "a&b", state: "ca"} was sent
C12_Witness ==
    /\ QuerySent
    /\ last.options = <<<<"name", "a&b">>, <<"state", "ca">>>>
    /\ sentQuery = chars("name") \o <<"=", "a", "%", "2", "6", "b", "&">>
                       \o chars("state") \o <<"=">> \o chars("ca")
    /\ decodeQuery(sentQuery) = {<<chars("name"), chars("a&b")>>,
                                 <<chars("state"), chars("ca")>>}

C14_OnlyValidationThrows ==
    (last.op \in {"login", "logout", "getCompanies"} /\ last.result.kind = "throw")
        => /\ last.op = "login"
           /\ last.requests = <<>>
           /\ validationError(last.timeoutLength, last.unit) # ""

\* C15: a successful login while a session is stored overwrites it: the
\* credential stored afterwards is the new one, the expiration is counted
\* from the time of this login, exactly one recurring check is registered and
\* the only request issued is the authentication POST (no DELETE for the old
\* session).
C15_ReloginOverwrites ==
    [][(credentialStored /\ last'.op = "login" /\ last'.result.success)
        => /\ credentialStored'
           /\ scriptProps'["SESSION_COOKIES"] = last'.fetch.cookie
           /\ expirationStored'
           /\ parseDate(scriptProps'["SESSION_EXPIRATION"]) = now + TimeoutMinutes(last')
           /\ Len(SessionTriggers(triggers')) = 1
           /\ last'.requests = <<AuthRequest>>]_vars

\* a successful login right after a successful login, later than time 0
C15_Witness ==
    /\ last.op = "login" /\ last.result.success /\ last.afterLogin
    /\ now > 0
    /\ scriptProps["SESSION_COOKIES"] = last.fetch.cookie
    /\ parseDate(scriptProps["SESSION_EXPIRATION"]) = now + TimeoutMinutes(last)
    /\ last.requests = <<AuthRequest>>

\* C16: after any sequence of login, logout, isUserLoggedIn, getCompanies and
\* session checks, at most one trigger of the session-check handler exists.
C16_AtMostOneSessionTrigger == Len(SessionTriggers(triggers)) <= 1

\* two successful logins in a row left one session-check trigger, registered
\* by the second, next to the trigger of the host project
C16_Witness ==
    /\ last.op = "login" /\ last.result.success /\ last.afterLogin
    /\ last.unit = "minutes" /\ last.timeoutLength = Num(5, FALSE)
    /\ triggers = <<ForeignTrigger,
                    everyMinutes(newTrigger(SessionCheckHandler), 5)>>

\* C17: with a credential stored, logout returns "Logout successful" exactly
\* when the remote status is 204 and "Logout failed" for every other status;
\* in both cases the credential and the expiration have been cleared.
C17_LogoutMessageFromStatus ==
    [][(credentialStored /\ last'.op = "logout" /\ GotStatus(last'))
        => /\ last'.result = ReturnString(IF last'.fetch.code = 204
                                          THEN "Logout successful"
                                          ELSE "Logout failed")
           /\ ~credentialStored' /\ ~expirationStored']_vars

\* a logout answered 204 reported success and cleared the store
C17_Witness ==
    /\ last.op = "logout" /\ GotStatus(last) /\ last.fetch.code = 204
    /\ last.result = ReturnString("Logout successful")
    /\ ~credentialStored /\ ~expirationStored /\ ~checkRegistered

\* C18: in the earlier draft, logout with a stored session removes the
\* session-check trigger that login registered through
\* createSessionCheckTrigger: after a logout that reached the server, no
\* trigger whose handler is the session-check dispatcher remains.
C18_DraftLogoutRemovesTrigger ==
    (last.op = "logout" /\ GotStatus(last))
        => Len(DispatcherTriggers(triggers)) = 0

\* a store holding a credential and no expiration
CookieOnly(cookie) == setProperty(NoProperties, "SESSION_COOKIES", cookie)

\* what isUserLoggedIn is to answer in the current state
loggedInValue ==
    /\ credentialStored
    /\ ~(/\ expirationStored
         /\ now > parseDate(scriptProps["SESSION_EXPIRATION"]))

\* whenever isUserLoggedIn returns, it returns loggedInValue
LoggedInValueWhenReturned ==
    [][(last'.op = "isUserLoggedIn" /\ last'.result.kind = "boolean")
        => last'.result.value = loggedInValue]_vars

\* C19: in every reachable state isUserLoggedIn returns: credential stored
\* and not (expiration stored and now > expiresAt).  The comparison is strict
\* (at now = expiresAt the answer is true), and a credential stored without
\* an expiration never expires.
C19_LoggedInValue ==
    [][/\ last'.op = "isUserLoggedIn"
            => last'.result = ReturnBoolean(loggedInValue)
       /\ \A cookie \in Credentials, fetch \in LogoutFetches :
            isUserLoggedIn(CookieOnly(cookie), triggers, now, fetch)
                = Outcome(CookieOnly(cookie), triggers, ReturnBoolean(TRUE), <<>>)]_vars

\* the stored session is not past its expiration
sessionLive ==
    /\ credentialStored /\ expirationStored
    /\ now <= parseDate(scriptProps["SESSION_EXPIRATION"])

\* C20: isUserLoggedIn and the periodic check never clear the credential, the
\* expiration or the trigger of a session that is not past its expiration.
C20_NoPrematureLogout ==
    [][(last'.op \in {"isUserLoggedIn", "sessionCheck"} /\ sessionLive)
        => /\ StoreUnchanged
           /\ last'.requests = <<>>]_vars

\* the periodic check ran at the very minute of the expiration and left the
\* session and its trigger in place
C20_Witness ==
    /\ last.op = "sessionCheck" /\ last.requests = <<>>
    /\ sessionLive /\ checkRegistered
    /\ now = parseDate(scriptProps["SESSION_EXPIRATION"])

\* C21: the stored expiration is fixed at login and never extended: a step
\* changes it only by a successful login (set from the time of that login)
\* or by a logout or auto-logout (cleared); isUserLoggedIn returning true,
\* getCompanies, a failed login and a periodic check on a live session leave
\* it as it was.
C21_ExpirationNeverExtended ==
    [][/\ expirationOf(scriptProps') # expirationOf(scriptProps)
            => \/ /\ last'.op = "login" /\ last'.result.success
                  /\ expirationOf(scriptProps')
                         = <<toISOString(now + TimeoutMinutes(last'))>>
               \/ /\ last'.op \in {"logout", "isUserLoggedIn", "sessionCheck"}
                  /\ expirationOf(scriptProps') = <<>>
       /\ (\/ last'.op = "isUserLoggedIn" /\ last'.result = ReturnBoolean(TRUE)
           \/ last'.op = "getCompanies"
           \/ last'.op = "login" /\ ~last'.result.success
           \/ last'.op = "sessionCheck" /\ sessionLive)
            => expirationOf(scriptProps') = expirationOf(scriptProps)]_vars

\* a query succeeded an hour after the clock started, on a session whose
\* expiration is nearer than the shortest timeout a login at that time sets
C21_Witness ==
    /\ last.op = "getCompanies" /\ last.result.success
    /\ now = 60
    /\ expirationOf(scriptProps) = <<toISOString(60)>>

\* C22: getCompanies never changes session state: for every options object
\* and every outcome the credential, the expiration and the triggers after
\* the call equal those before it; only login, logout, isUserLoggedIn and the
\* periodic check change them.
C22_QueryLeavesSession ==
    [][/\ last'.op = "getCompanies" => StoreUnchanged
       /\ ~StoreUnchanged
            => last'.op \in {"login", "logout", "isUserLoggedIn", "sessionCheck"}]_vars

\* a query answered 404 left the session, its expiration and its trigger
C22_Witness ==
    /\ last.op = "getCompanies" /\ GotStatus(last) /\ last.fetch.code = 404
    /\ last.options # <<>>
    /\ credentialStored /\ expirationStored /\ checkRegistered

\* C23: getCompanies does not consult the expiration: on a session that is
\* past its expiration it still issues its GET with the stored credential and
\* leaves the expired session stored.
C23_QueryIgnoresExpiration ==
    [][(sessionExpired /\ last'.op = "getCompanies")
        => /\ Len(last'.requests) = 1
           /\ last'.requests[1].method = "get"
           /\ last'.requests[1].cookie = scriptProps["SESSION_COOKIES"]
           /\ StoreUnchanged]_vars

\* a query went out with the credential of a session past its expiration
C23_Witness ==
    /\ last.op = "getCompanies" /\ Len(last.requests) = 1
    /\ sessionExpired
    /\ last.requests[1].cookie = scriptProps["SESSION_COOKIES"]

\* C25: the periodic check does nothing beyond what isUserLoggedIn does: one
\* firing issues at most one request (the DELETE of the auto-logout of an
\* expired session) and leaves the store and the triggers as isUserLoggedIn
\* would; a firing that finds no credential stored issues no request and
\* leaves the store and the triggers unchanged.
C25_CheckIsOnlyIsLoggedIn ==
    [][last'.op = "sessionCheck"
        => /\ Len(last'.requests) <= 1
           /\ last'.requests # <<>>
                => /\ sessionExpired
                   /\ last'.requests
                          = <<LogoutRequest(scriptProps["SESSION_COOKIES"])>>
           /\ \E fetch \in LogoutFetches :
                LET out == isUserLoggedIn(scriptProps, triggers, now, fetch)
                IN  /\ scriptProps' = out.props
                    /\ triggers' = out.triggers
                    /\ last'.requests = out.requests
           /\ ~credentialStored
                => /\ last'.requests = <<>>
                   /\ StoreUnchanged]_vars

\* a check fired after a logout: no credential, nothing sent, nothing stored
C25_Witness ==
    /\ last.op = "sessionCheck" /\ last.requests = <<>>
    /\ last.result = ReturnString("undefined")
    /\ ~credentialStored /\ ~expirationStored /\ ~checkRegistered
    /\ now > 0

\* C27: between the operations of any serialized sequence of login, logout,
\* isUserLoggedIn, getCompanies and periodic checks the three pieces of
\* session state agree: the credential is stored iff the expiration is
\* stored, and iff the recurring check is registered.
C27_SessionStateAgrees ==
    /\ credentialStored <=> expirationStored
    /\ credentialStored <=> checkRegistered

\* the auto-logout of a periodic check removed all three together
C27_Witness ==
    /\ last.op = "sessionCheck" /\ Len(last.requests) = 1 /\ ~last.fetch.threw
    /\ ~credentialStored /\ ~expirationStored /\ ~checkRegistered

\* C28: for every (timeoutLength, unit) that login accepts, the recurring
\* check login registers has exactly one interval, equal to the session
\* timeout: timeoutLength hours for 'hours' (a whole number >= 1),
\* timeoutLength minutes for 'minutes' (one of 1, 5, 10, 15, 30).
C28_TriggerIntervalIsTimeout ==
    (last.op = "login" /\ last.result.success)
        => /\ SessionTriggers(triggers)
                  = <<[handler |-> SessionCheckHandler,
                       intervals |-> <<<<last.unit, last.timeoutLength.whole>>>>]>>
           /\ ~last.timeoutLength.frac
           /\ \/ last.unit = "hours" /\ last.timeoutLength.whole >= 1
              \/ /\ last.unit = "minutes"
                 /\ last.timeoutLength.whole \in {1, 5, 10, 15, 30}

\* login(..., 10, 'minutes') registered a trigger for every 10 minutes
C28_Witness ==
    /\ last.op = "login" /\ last.result.success
    /\ last.unit = "minutes" /\ last.timeoutLength = Num(10, FALSE)
    /\ SessionTriggers(triggers)
           = <<everyMinutes(newTrigger(SessionCheckHandler), 10)>>

\* C26: without serialization the read-then-logout of isUserLoggedIn is a
\* race: its logout step acts on the store as it is then, so a session
\* stored by a login that completed after the read is deleted (credential,
\* expiration, trigger) and its credential is sent in the DELETE, although it
\* is not expired.  A live session is hit only when the store changed since
\* the read; when the logout step follows the read at once it never is.
C26_RaceDeletesFreshSession ==
    [][(running.pc = "logout" /\ running'.pc = "idle")
        => /\ (credentialStored /\ ~last'.fetch.threw)
                => /\ last'.requests
                          = <<LogoutRequest(scriptProps["SESSION_COOKIES"])>>
                   /\ ~credentialStored' /\ ~expirationStored'
                   /\ ~checkRegistered'
           /\ sessionLive => expirationOf(scriptProps) # running.expiration
           /\ last.op = "expirationRead" => ~sessionLive]_vars

\* isUserLoggedIn finished right after a successful login: it sent a DELETE
\* and left nothing of the session just stored
C26_Witness ==
    /\ last.op = "isUserLoggedIn" /\ last.afterLogin
    /\ last.result = ReturnBoolean(FALSE)
    /\ Len(last.requests) = 1 /\ last.requests[1].method = "delete"
    /\ ~credentialStored /\ ~expirationStored /\ ~checkRegistered

\* with every invocation atomic that state does not occur
RaceUnreachableWhenAtomic == ~C26_Witness

\* nothing of the session is left: no credential, no expiration, no trigger
sessionCleared == ~credentialStored /\ ~expirationStored /\ ~checkRegistered

\* C24: after any successful login, if the clock keeps advancing and the
\* scheduler keeps firing the recurring check, then without any further call
\* of the caller the credential and the expiration are eventually cleared and
\* the recurring check is cancelled.
C24_ExpirationEventuallyEnforced ==
    (last.op = "login" /\ last.result.success) ~> sessionCleared

====
